---- MODULE Spec2Model ----
(***************************************************************************)
(* A model of APP.py, the Gapminder dashboard: the module-level dataset    *)
(* and derived option lists, the theme helper, the figure builders and the *)
(* four reactive callbacks registered with the Dash runtime.               *)
(*                                                                         *)
(* Two specifications are given.  SpecBuild calls the builders directly,   *)
(* one call per step, with arguments drawn from the option lists plus one  *)
(* continent and one year that the dataset does not hold.  Spec is the     *)
(* page: a control changes, the callbacks that declare it as an Input are  *)
(* queued, and they run to completion in any order.                        *)
(*                                                                         *)
(* Abstractions.  Floats (lifeExp, gdpPercap) are integers.  A figure is   *)
(* a record of what the code hands to plotly: the columns it plots and the *)
(* layout settings, not the whole frame.  An f-string title is the tuple   *)
(* of its parts.  The dataset is a small sample with the shape of          *)
(* px.data.gapminder(): one row per (country, year), countries in          *)
(* alphabetical order, years ascending within a country.                   *)
(***************************************************************************)
EXTENDS Integers, Sequences, FiniteSets, TLC

VARIABLES
    df,             \* the dataset, loaded once (line 13)
    tieOrder,       \* how this build's default sort orders equal keys
    theme_toggle,   \* RadioItems "theme-toggle"
    cont_all,       \* Dropdown "cont_all"
    year_all,       \* Dropdown "year_all"
    topn,           \* Slider "topn"
    bar_orient,     \* RadioItems "bar-orient"
    var_map,        \* Dropdown "var_map"
    year_map,       \* Dropdown "year_map"
    style,          \* the style property of the seven styled containers
    figure,         \* the figure property of the five dcc.Graph components
    pending,        \* callbacks the runtime has queued and not yet run
    changed,        \* the control whose change queued them
    call            \* SpecBuild: the last direct builder call and its result

vars == <<df, tieOrder, theme_toggle, cont_all, year_all, topn, bar_orient,
          var_map, year_map, style, figure, pending, changed, call>>

----------------------------------------------------------------------------
(* Bounds of the sample dataset. *)

NumAsia == 6
NumEurope == 2
NumYears == 2
MaxSeed == 1

(* Slider "topn": min, max and step. *)
TopNMin == 5
TopNMax == 25
TopNStep == 5

(* The first year of the dataset, the initial value of both year dropdowns. *)
FirstYear == 1952
YearStep == 5

None == [kind |-> "none"]

----------------------------------------------------------------------------
(* The dataset. *)

columns ==
    <<"country", "continent", "year", "lifeExp", "pop", "gdpPercap",
      "iso_alpha", "iso_num">>

CountryTable ==
    << [country |-> "Afghanistan", continent |-> "Asia",   iso_alpha |-> "AFG", iso_num |-> 4],
       [country |-> "Albania",     continent |-> "Europe", iso_alpha |-> "ALB", iso_num |-> 8],
       [country |-> "Austria",     continent |-> "Europe", iso_alpha |-> "AUT", iso_num |-> 40],
       [country |-> "Bahrain",     continent |-> "Asia",   iso_alpha |-> "BHR", iso_num |-> 48],
       [country |-> "Bangladesh",  continent |-> "Asia",   iso_alpha |-> "BGD", iso_num |-> 50],
       [country |-> "Belgium",     continent |-> "Europe", iso_alpha |-> "BEL", iso_num |-> 56],
       [country |-> "Bulgaria",    continent |-> "Europe", iso_alpha |-> "BGR", iso_num |-> 100],
       [country |-> "Cambodia",    continent |-> "Asia",   iso_alpha |-> "KHM", iso_num |-> 116],
       [country |-> "China",       continent |-> "Asia",   iso_alpha |-> "CHN", iso_num |-> 156],
       [country |-> "India",       continent |-> "Asia",   iso_alpha |-> "IND", iso_num |-> 356],
       [country |-> "Indonesia",   continent |-> "Asia",   iso_alpha |-> "IDN", iso_num |-> 360],
       [country |-> "Iran",        continent |-> "Asia",   iso_alpha |-> "IRN", iso_num |-> 364] >>

Quota(c) == IF c = "Asia" THEN NumAsia ELSE NumEurope

RankIn(i) ==
    Cardinality({j \in 1..i : CountryTable[j].continent = CountryTable[i].continent})

(* The countries of the sample: the first Quota(c) of each continent, in   *)
(* alphabetical order.                                                     *)
Loaded ==
    LET idx == SelectSeq([i \in 1..Len(CountryTable) |-> i],
                         LAMBDA i : RankIn(i) <= Quota(CountryTable[i].continent))
    IN  [n \in 1..Len(idx) |-> CountryTable[idx[n]] @@ [ord |-> idx[n]]]

SampleYears == [k \in 1..NumYears |-> FirstYear + YearStep * (k - 1)]

(* px.data.gapminder(): one row per (country, year).  The metric values    *)
(* are small, so that equal values occur within a (continent, year).       *)
Gapminder(seed) ==
    [n \in 1..(Len(Loaded) * NumYears) |->
        LET c == Loaded[((n - 1) \div NumYears) + 1]
            k == ((n - 1) % NumYears) + 1
            i == c.ord
        IN  [country   |-> c.country,
             continent |-> c.continent,
             year      |-> SampleYears[k],
             lifeExp   |-> 40 + ((i * i + k + seed) % 7),
             pop       |-> 1 + ((i * 2 + k + seed * i) % 3),
             gdpPercap |-> 100 * (1 + ((i * 3 + 2 * k + seed * (i + 1)) % 5)),
             iso_alpha |-> c.iso_alpha,
             iso_num   |-> c.iso_num]]

TABLE_COL_RENAME ==
    [c \in {columns[i] : i \in 1..Len(columns)} |->
        CASE c = "country"   -> "Country"
          [] c = "continent" -> "Continent"
          [] c = "year"      -> "Year"
          [] c = "lifeExp"   -> "Life Expectancy"
          [] c = "pop"       -> "Population"
          [] c = "gdpPercap" -> "GDP per Capita"
          [] c = "iso_alpha" -> "ISO Alpha Country Code"
          [] c = "iso_num"   -> "ISO Numeric Code"]

(* df[col].values *)
Column(frame, col) == [i \in 1..Len(frame) |-> frame[i][col]]

(* sorted(df["continent"].unique()) and sorted(df["year"].unique()); the   *)
(* order of the option lists plays no part in the builders.                *)
continents == {df[i].continent : i \in 1..Len(df)}
years == {df[i].year : i \in 1..Len(df)}

TopNValues == {n \in TopNMin..TopNMax : (n - TopNMin) % TopNStep = 0}

(* Variant: the columns of two labels exchanged. *)
VAR_MAP_swapped ==
    [k \in {"Population", "GDP per Capita", "Life Expectancy"} |->
        CASE k = "Population"      -> "gdpPercap"
          [] k = "GDP per Capita"  -> "pop"
          [] k = "Life Expectancy" -> "lifeExp"]

VAR_MAP ==
    [k \in {"Population", "GDP per Capita", "Life Expectancy"} |->
        CASE k = "Population"      -> "pop"
          [] k = "GDP per Capita"  -> "gdpPercap"
          [] k = "Life Expectancy" -> "lifeExp"]

----------------------------------------------------------------------------
(* Theme helper. *)

(* Variant: the test is for "light", so that other selectors are dark. *)
theme_settings_light_first(theme) ==
    IF theme = "light"
    THEN [template |-> "plotly_white", page_bg |-> "#e5ecf6",
          card_bg |-> "#ffffff", text |-> "#111827"]
    ELSE [template |-> "plotly_dark", page_bg |-> "#111827",
          card_bg |-> "#1f2937", text |-> "#e5e7eb"]

theme_settings(theme) ==
    IF theme = "dark"
    THEN [template |-> "plotly_dark", page_bg |-> "#111827",
          card_bg |-> "#1f2937", text |-> "#e5e7eb"]
    ELSE [template |-> "plotly_white", page_bg |-> "#e5ecf6",
          card_bg |-> "#ffffff", text |-> "#111827"]

----------------------------------------------------------------------------
(* The pandas operations the builders use. *)

(* df[(df["continent"] == continent) & (df["year"] == int(year))]: a       *)
(* boolean mask keeps the matching rows in the order of the frame.  The    *)
(* years of the model are integers, on which int() is the identity.        *)
filter_continent_year(frame, continent, year) ==
    SelectSeq(frame, LAMBDA r : r.continent = continent /\ r.year = year)

(* df[df["year"] == int(year)] *)
filter_year(frame, year) ==
    SelectSeq(frame, LAMBDA r : r.year = year)

(* Variant: ascending=False left out. *)
sort_values_ascending(frame, by) ==
    LET n == Len(frame)
        key == Column(frame, by) \o << >>
        Before(j, i) ==
            \/ key[j] < key[i]
            \/ /\ key[j] = key[i]
               /\ IF tieOrder = "stable" THEN j < i ELSE j > i
        rank == [i \in 1..n |-> Cardinality({j \in 1..n : Before(j, i)}) + 1] \o << >>
    IN  [r \in 1..n |-> frame[CHOOSE i \in 1..n : rank[i] = r]]

(* frame.sort_values(by=by, ascending=False).  No kind is given, so pandas *)
(* sorts with its default, quicksort, which is not a stable sort: the      *)
(* order of rows with equal keys is whatever the build's sort produces.    *)
(* It is the same on every call of one run; tieOrder holds it.             *)
(* key and rank are tuples, built once per call.                           *)
sort_values(frame, by) ==
    LET n == Len(frame)
        key == Column(frame, by) \o << >>
        Before(j, i) ==
            \/ key[j] > key[i]
            \/ /\ key[j] = key[i]
               /\ IF tieOrder = "stable" THEN j < i ELSE j > i
        rank == [i \in 1..n |-> Cardinality({j \in 1..n : Before(j, i)}) + 1] \o << >>
    IN  [r \in 1..n |-> frame[CHOOSE i \in 1..n : rank[i] = r]]

(* Variant: no truncation. *)
head_untruncated(frame, n) ==
    frame

(* Variant: tail(n) in place of head(n). *)
head_last(frame, n) ==
    SubSeq(frame, IF n < Len(frame) THEN Len(frame) - n + 1 ELSE 1, Len(frame))

(* frame.head(n), n >= 0 *)
head(frame, n) ==
    SubSeq(frame, 1, IF n < Len(frame) THEN n ELSE Len(frame))

(* d.get(key, default) *)
dict_get(d, key, default) ==
    IF key \in DOMAIN d THEN d[key] ELSE default

----------------------------------------------------------------------------
(* Figure builders. *)

NoDataMsg == "No data available for current filters."

empty_figure(msg) ==
    [kind       |-> "empty",
     traces     |-> 0,
     annotation |-> [text |-> msg, x |-> "center", y |-> "center"],
     template   |-> "plotly_white",
     axes       |-> FALSE,
     height     |-> 420]

(* Variant: update_layout without the template. *)
make_bar_untemplated(filtered, x_col, y_col, title, template, orient, top_n) ==
    IF filtered = << >>
    THEN empty_figure(NoDataMsg)
    ELSE LET data == head(sort_values(filtered, y_col), top_n)
         IN  [kind         |-> "bar",
              x            |-> Column(data, IF orient = "h" THEN y_col ELSE x_col),
              y            |-> Column(data, IF orient = "h" THEN x_col ELSE y_col),
              color        |-> Column(data, x_col),
              orientation  |-> IF orient = "h" THEN "h" ELSE "v",
              title        |-> title,
              template     |-> "plotly",
              textposition |-> "outside",
              height       |-> 600]

make_bar(filtered, x_col, y_col, title, template, orient, top_n) ==
    IF filtered = << >>
    THEN empty_figure(NoDataMsg)
    ELSE LET data == head(sort_values(filtered, y_col), top_n)
         IN  [kind         |-> "bar",
              x            |-> Column(data, IF orient = "h" THEN y_col ELSE x_col),
              y            |-> Column(data, IF orient = "h" THEN x_col ELSE y_col),
              color        |-> Column(data, x_col),
              orientation  |-> IF orient = "h" THEN "h" ELSE "v",
              title        |-> title,
              template     |-> template,
              textposition |-> "outside",
              height       |-> 600]

create_table(template) ==
    LET headers == [i \in 1..Len(columns) |-> dict_get(TABLE_COL_RENAME, columns[i], columns[i])]
        table_df == [i \in 1..Len(df) |->
                        [h \in {headers[j] : j \in 1..Len(headers)} |->
                            df[i][CHOOSE c \in DOMAIN TABLE_COL_RENAME :
                                      TABLE_COL_RENAME[c] = h]]]
        vals == [i \in 1..Len(headers) |-> Column(table_df, headers[i])]
    IN  [kind     |-> "table",
         header   |-> headers,
         cells    |-> vals,
         template |-> template,
         height   |-> 700]

create_population_chart(continent, year, template, orient, top_n) ==
    make_bar(filter_continent_year(df, continent, year), "country", "pop",
             <<"Population for", continent, "in", year>>,
             template, orient, top_n)

create_gdp_chart(continent, year, template, orient, top_n) ==
    make_bar(filter_continent_year(df, continent, year), "country", "gdpPercap",
             <<"GDP per Capita for", continent, "in", year>>,
             template, orient, top_n)

create_life_exp_chart(continent, year, template, orient, top_n) ==
    make_bar(filter_continent_year(df, continent, year), "country", "lifeExp",
             <<"Life Expectancy for", continent, "in", year>>,
             template, orient, top_n)

(* Variant: no test for an empty filter. *)
create_choropleth_map_unchecked(variable_display, year, template) ==
    LET var_col == dict_get(VAR_MAP, variable_display, "lifeExp")
        filtered == filter_year(df, year)
    IN  [kind       |-> "choropleth",
         locations  |-> Column(filtered, "iso_alpha"),
         color      |-> Column(filtered, var_col),
         color_col  |-> var_col,
         hover_name |-> Column(filtered, "country"),
         title      |-> <<variable_display, "Choropleth Map", year>>,
         template   |-> template,
         dragmode   |-> FALSE,
         height     |-> 600]

create_choropleth_map(variable_display, year, template) ==
    LET var_col == dict_get(VAR_MAP, variable_display, "lifeExp")
        filtered == filter_year(df, year)
    IN  IF filtered = << >>
        THEN empty_figure(NoDataMsg)
        ELSE [kind       |-> "choropleth",
              locations  |-> Column(filtered, "iso_alpha"),
              color      |-> Column(filtered, var_col),
              color_col  |-> var_col,
              hover_name |-> Column(filtered, "country"),
              title      |-> <<variable_display, "Choropleth Map", year>>,
              template   |-> template,
              dragmode   |-> FALSE,
              height     |-> 600]

----------------------------------------------------------------------------
(* The callbacks: what each returns for the values of its Inputs. *)

StyledIds ==
    <<"page-root", "sidebar-inner", "card-table", "card-pop", "card-gdp",
      "card-life", "card-map">>

paint_theme(theme) ==
    LET t == theme_settings(theme)
        page_style == [backgroundColor |-> t.page_bg, minHeight |-> "100vh"]
        card_style == [backgroundColor |-> t.card_bg, color |-> t.text]
    IN  <<page_style, card_style, card_style, card_style, card_style,
          card_style, card_style>>

update_table(theme) ==
    LET t == theme_settings(theme)
    IN  create_table(t.template)

(* Variant: the GDP chart built without the year, so with its default. *)
update_bars_default_year(continent, year, theme, top_n, orient) ==
    LET t == theme_settings(theme)
        fig1 == create_population_chart(continent, year, t.template, orient, top_n)
        fig2 == create_gdp_chart(continent, FirstYear, t.template, orient, top_n)
        fig3 == create_life_exp_chart(continent, year, t.template, orient, top_n)
    IN  <<fig1, fig2, fig3>>

update_bars(continent, year, theme, top_n, orient) ==
    LET t == theme_settings(theme)
        fig1 == create_population_chart(continent, year, t.template, orient, top_n)
        fig2 == create_gdp_chart(continent, year, t.template, orient, top_n)
        fig3 == create_life_exp_chart(continent, year, t.template, orient, top_n)
    IN  <<fig1, fig2, fig3>>

(* Variant: parameters in another order than the Inputs, so that the      *)
(* theme arrives as the variable and the variable as the theme.          *)
update_map_swapped(var_display, year, theme) ==
    LET t == theme_settings(var_display)
    IN  create_choropleth_map(theme, year, t.template)

update_map(var_display, year, theme) ==
    LET t == theme_settings(theme)
    IN  create_choropleth_map(var_display, year, t.template)

----------------------------------------------------------------------------
(* The page: controls, the callbacks' declared Inputs, and the runtime. *)

TopNInitial == 15

Callbacks == {"paint_theme", "update_table", "update_bars", "update_map"}

GraphIds == {"dataset", "population", "gdp", "life_expectancy", "choropleth_map"}

(* Variant: update_map declared without the theme Input. *)
Inputs_map_without_theme(cb) ==
    CASE cb = "paint_theme"  -> {"theme-toggle"}
      [] cb = "update_table" -> {"theme-toggle"}
      [] cb = "update_bars"  -> {"cont_all", "year_all", "theme-toggle", "topn", "bar-orient"}
      [] cb = "update_map"   -> {"var_map", "year_map"}

(* The Input(...) declarations of each @callback. *)
Inputs(cb) ==
    CASE cb = "paint_theme"  -> {"theme-toggle"}
      [] cb = "update_table" -> {"theme-toggle"}
      [] cb = "update_bars"  -> {"cont_all", "year_all", "theme-toggle", "topn", "bar-orient"}
      [] cb = "update_map"   -> {"var_map", "year_map", "theme-toggle"}

Triggered(control) == {cb \in Callbacks : control \in Inputs(cb)}

(* The dataset and the sort's order of equal keys are fixed at startup. *)
InitData ==
    /\ \E seed \in 0..MaxSeed : df = Gapminder(seed)
    /\ tieOrder \in {"stable", "reversed"}

(* The layout's initial values; on page load the runtime calls every       *)
(* callback once.                                                          *)
Init ==
    /\ InitData
    /\ theme_toggle = "light"
    /\ cont_all = "Asia"
    /\ year_all = FirstYear
    /\ topn = TopNInitial
    /\ bar_orient = "v"
    /\ var_map = "Life Expectancy"
    /\ year_map = FirstYear
    /\ style = [id \in {StyledIds[i] : i \in 1..Len(StyledIds)} |-> None]
    /\ figure = [id \in GraphIds |-> None]
    /\ pending = Callbacks
    /\ changed = "initial"
    /\ call = [fn |-> "none"]

(* A control changes to another of its options, once the callbacks of the  *)
(* previous change have run; the runtime queues the callbacks that declare *)
(* the control.                                                            *)
Idle == pending = {}

Queue(control) ==
    /\ pending' = Triggered(control)
    /\ changed' = control
    /\ UNCHANGED <<df, tieOrder, style, figure, call>>

SetTheme ==
    /\ Idle
    /\ \E v \in {"light", "dark"} : v # theme_toggle /\ theme_toggle' = v
    /\ Queue("theme-toggle")
    /\ UNCHANGED <<cont_all, year_all, topn, bar_orient, var_map, year_map>>

SetContinent ==
    /\ Idle
    /\ \E v \in continents : v # cont_all /\ cont_all' = v
    /\ Queue("cont_all")
    /\ UNCHANGED <<theme_toggle, year_all, topn, bar_orient, var_map, year_map>>

SetYearAll ==
    /\ Idle
    /\ \E v \in years : v # year_all /\ year_all' = v
    /\ Queue("year_all")
    /\ UNCHANGED <<theme_toggle, cont_all, topn, bar_orient, var_map, year_map>>

SetTopN ==
    /\ Idle
    /\ \E v \in TopNValues : v # topn /\ topn' = v
    /\ Queue("topn")
    /\ UNCHANGED <<theme_toggle, cont_all, year_all, bar_orient, var_map, year_map>>

SetOrient ==
    /\ Idle
    /\ \E v \in {"v", "h"} : v # bar_orient /\ bar_orient' = v
    /\ Queue("bar-orient")
    /\ UNCHANGED <<theme_toggle, cont_all, year_all, topn, var_map, year_map>>

SetVarMap ==
    /\ Idle
    /\ \E v \in DOMAIN VAR_MAP : v # var_map /\ var_map' = v
    /\ Queue("var_map")
    /\ UNCHANGED <<theme_toggle, cont_all, year_all, topn, bar_orient, year_map>>

SetYearMap ==
    /\ Idle
    /\ \E v \in years : v # year_map /\ year_map' = v
    /\ Queue("year_map")
    /\ UNCHANGED <<theme_toggle, cont_all, year_all, topn, bar_orient, var_map>>

(* The runtime runs a queued callback on the current values of its Inputs  *)
(* and applies what it returns to its Outputs.                             *)
Done(cb) ==
    /\ cb \in pending
    /\ pending' = pending \ {cb}
    /\ UNCHANGED <<df, tieOrder, theme_toggle, cont_all, year_all, topn,
                   bar_orient, var_map, year_map, changed, call>>

RunPaintTheme ==
    /\ Done("paint_theme")
    /\ LET out == paint_theme(theme_toggle)
       IN  style' = [id \in DOMAIN style |->
                        out[CHOOSE i \in 1..Len(StyledIds) : StyledIds[i] = id]]
    /\ UNCHANGED figure

RunUpdateTable ==
    /\ Done("update_table")
    /\ figure' = [figure EXCEPT !["dataset"] = update_table(theme_toggle)]
    /\ UNCHANGED style

RunUpdateBars ==
    /\ Done("update_bars")
    /\ LET out == update_bars(cont_all, year_all, theme_toggle, topn, bar_orient)
       IN  figure' = [figure EXCEPT !["population"] = out[1],
                                    !["gdp"] = out[2],
                                    !["life_expectancy"] = out[3]]
    /\ UNCHANGED style

RunUpdateMap ==
    /\ Done("update_map")
    /\ figure' = [figure EXCEPT !["choropleth_map"] =
                      update_map(var_map, year_map, theme_toggle)]
    /\ UNCHANGED style

Next ==
    \/ SetTheme
    \/ SetContinent
    \/ SetYearAll
    \/ SetTopN
    \/ SetOrient
    \/ SetVarMap
    \/ SetYearMap
    \/ RunPaintTheme
    \/ RunUpdateTable
    \/ RunUpdateBars
    \/ RunUpdateMap

Spec == Init /\ [][Next]_vars

----------------------------------------------------------------------------
(* Direct calls of the builders, one per step. *)

(* Python's None, where a selector is missing. *)
NoValue == "None"

ThemeArgs == {"light", "dark", "solar", NoValue}
ContinentArgs == continents \cup {"Atlantis"}
YearArgs == years \cup {FirstYear - 1}
VariableArgs == DOMAIN VAR_MAP \cup {"Fertility"}

InitBuild ==
    /\ InitData
    /\ theme_toggle = "light"
    /\ cont_all = "Asia"
    /\ year_all = FirstYear
    /\ topn = TopNInitial
    /\ bar_orient = "v"
    /\ var_map = "Life Expectancy"
    /\ year_map = FirstYear
    /\ style = [id \in {StyledIds[i] : i \in 1..Len(StyledIds)} |-> None]
    /\ figure = [id \in GraphIds |-> None]
    /\ pending = {}
    /\ changed = "initial"
    /\ call = [fn |-> "none"]

(* The builders keep no state between calls: a behaviour is one call. *)
NoCallYet == call.fn = "none"

PageUnchanged ==
    UNCHANGED <<df, tieOrder, theme_toggle, cont_all, year_all, topn,
                bar_orient, var_map, year_map, style, figure, pending, changed>>

CallThemeSettings ==
    /\ NoCallYet
    /\ \E theme \in ThemeArgs :
          call' = [fn |-> "theme_settings", theme |-> theme,
                   result |-> theme_settings(theme)]
    /\ PageUnchanged

CallPopulationChart ==
    /\ NoCallYet
    /\ \E continent \in ContinentArgs, year \in YearArgs, theme \in {"light", "dark"},
          orient \in {"v", "h"}, top_n \in TopNValues :
          call' = [fn |-> "create_population_chart", y_col |-> "pop",
                   continent |-> continent, year |-> year, theme |-> theme,
                   orient |-> orient, top_n |-> top_n,
                   result |-> create_population_chart(
                       continent, year, theme_settings(theme).template, orient, top_n)]
    /\ PageUnchanged

CallGdpChart ==
    /\ NoCallYet
    /\ \E continent \in ContinentArgs, year \in YearArgs, theme \in {"light", "dark"},
          orient \in {"v", "h"}, top_n \in TopNValues :
          call' = [fn |-> "create_gdp_chart", y_col |-> "gdpPercap",
                   continent |-> continent, year |-> year, theme |-> theme,
                   orient |-> orient, top_n |-> top_n,
                   result |-> create_gdp_chart(
                       continent, year, theme_settings(theme).template, orient, top_n)]
    /\ PageUnchanged

CallLifeExpChart ==
    /\ NoCallYet
    /\ \E continent \in ContinentArgs, year \in YearArgs, theme \in {"light", "dark"},
          orient \in {"v", "h"}, top_n \in TopNValues :
          call' = [fn |-> "create_life_exp_chart", y_col |-> "lifeExp",
                   continent |-> continent, year |-> year, theme |-> theme,
                   orient |-> orient, top_n |-> top_n,
                   result |-> create_life_exp_chart(
                       continent, year, theme_settings(theme).template, orient, top_n)]
    /\ PageUnchanged

CallChoroplethMap ==
    /\ NoCallYet
    /\ \E variable \in VariableArgs, year \in YearArgs, theme \in {"light", "dark"} :
          call' = [fn |-> "create_choropleth_map", variable |-> variable,
                   year |-> year, theme |-> theme,
                   result |-> create_choropleth_map(
                       variable, year, theme_settings(theme).template)]
    /\ PageUnchanged

CallTable ==
    /\ NoCallYet
    /\ \E theme \in {"light", "dark"} :
          call' = [fn |-> "create_table", theme |-> theme,
                   result |-> create_table(theme_settings(theme).template)]
    /\ PageUnchanged

NextBuild ==
    \/ CallThemeSettings
    \/ CallPopulationChart
    \/ CallGdpChart
    \/ CallLifeExpChart
    \/ CallChoroplethMap
    \/ CallTable

SpecBuild == InitBuild /\ [][NextBuild]_vars

----------------------------------------------------------------------------
(* Properties of the builders, checked under SpecBuild. *)

BarBuilders == {"create_population_chart", "create_gdp_chart", "create_life_exp_chart"}

IsBarCall == call.fn \in BarBuilders

(* The positions in df of the rows a (continent, year) filter matches. *)
MatchingRows(continent, year) ==
    {r \in 1..Len(df) : df[r].continent = continent /\ df[r].year = year}

YearRows(year) == {r \in 1..Len(df) : df[r].year = year}

(* A bar figure's categories (one country per bar) and the bars' values,   *)
(* whichever axis carries them.                                            *)
Categories(fig) == fig.color

Values(fig) == IF fig.orientation = "h" THEN fig.x ELSE fig.y

BarCount(fig) == IF fig.kind = "bar" THEN Len(Categories(fig)) ELSE 0

(* The position in df of the row of a country in the call's year. *)
RowOf(country) ==
    CHOOSE r \in 1..Len(df) : df[r].country = country /\ df[r].year = call.year

(* The rows of the call's filter that the figure does not show. *)
Dropped ==
    {r \in MatchingRows(call.continent, call.year) :
        \A i \in 1..BarCount(call.result) : Categories(call.result)[i] # df[r].country}

IsPlaceholder(fig) ==
    /\ fig.kind = "empty"
    /\ fig.traces = 0
    /\ fig.annotation = [text |-> NoDataMsg, x |-> "center", y |-> "center"]
    /\ fig.axes = FALSE

(* C1: for a continent and a year of the option lists and a slider value   *)
(* of top N, a ranked-bar builder's figure has at most top N bars and at   *)
(* most as many bars as rows match the (continent, year).                  *)
C1_BarCountBounded ==
    (IsBarCall /\ call.continent \in continents /\ call.year \in years
               /\ call.top_n \in TopNValues)
    => /\ BarCount(call.result) <= call.top_n
       /\ BarCount(call.result) <= Cardinality(MatchingRows(call.continent, call.year))

(* A call that truncates: more rows match than the slider's minimum. *)
C1_Witness ==
    /\ IsBarCall
    /\ call.top_n = TopNMin
    /\ Cardinality(MatchingRows(call.continent, call.year)) > TopNMin
    /\ BarCount(call.result) = TopNMin

(* C2: the bars of a ranked-bar figure are in descending order of the      *)
(* builder's metric, and each bar is a row of the requested continent and  *)
(* year, shown with that row's metric value.                               *)
C2_SortedDescending ==
    (IsBarCall /\ call.result.kind = "bar")
    => LET cats == Categories(call.result)
           vals == Values(call.result)
       IN  /\ Len(vals) = Len(cats)
           /\ \A i \in 1..(Len(vals) - 1) : vals[i] >= vals[i + 1]
           /\ \A i \in 1..Len(cats) :
                 \E r \in MatchingRows(call.continent, call.year) :
                     /\ df[r].country = cats[i]
                     /\ df[r][call.y_col] = vals[i]

(* A figure whose first bar is not the filter's first row: sorting moved it. *)
C2_Witness ==
    /\ IsBarCall
    /\ call.result.kind = "bar"
    /\ BarCount(call.result) >= 3
    /\ Values(call.result)[1] > Values(call.result)[BarCount(call.result)]
    /\ \E r \in MatchingRows(call.continent, call.year) :
          r < RowOf(Categories(call.result)[1])

(* C3 as stated: rows with equal metric values keep their dataset order,   *)
(* in the figure and in the choice of the rows that survive truncation.    *)
C3_StableTies ==
    (IsBarCall /\ call.result.kind = "bar")
    => LET cats == Categories(call.result)
           vals == Values(call.result)
       IN  /\ \A i, j \in 1..Len(cats) :
                 (i < j /\ vals[i] = vals[j]) => RowOf(cats[i]) < RowOf(cats[j])
           /\ \A i \in 1..Len(cats) : \A r \in Dropped :
                 df[r][call.y_col] = vals[i] => RowOf(cats[i]) < r

(* C3 as amended: the figure shows distinct rows of the filter, as many as *)
(* top N allows, and every row it shows has a metric value at least that   *)
(* of every row it drops; the order among equal values is not fixed.       *)
C3_KeptOutrankDropped ==
    (IsBarCall /\ call.result.kind = "bar")
    => LET cats == Categories(call.result)
           vals == Values(call.result)
           matching == Cardinality(MatchingRows(call.continent, call.year))
       IN  /\ \A i, j \in 1..Len(cats) : i # j => cats[i] # cats[j]
           /\ Len(cats) = IF call.top_n < matching THEN call.top_n ELSE matching
           /\ \A i \in 1..Len(cats) : \A r \in Dropped :
                 vals[i] >= df[r][call.y_col]

(* A tie across the truncation: a dropped row has the value of a shown one. *)
C3_Witness ==
    /\ IsBarCall
    /\ call.result.kind = "bar"
    /\ \E r \in Dropped : \E i \in 1..BarCount(call.result) :
          /\ df[r][call.y_col] = Values(call.result)[i]
          /\ r < RowOf(Categories(call.result)[i])

(* C4: a bar builder returns the placeholder exactly when no row matches   *)
(* the (continent, year), the map builder exactly when no row has the      *)
(* year; otherwise each returns its own kind of figure.                    *)
C4_PlaceholderIffEmpty ==
    /\ IsBarCall =>
          IF MatchingRows(call.continent, call.year) = {}
          THEN IsPlaceholder(call.result)
          ELSE call.result.kind = "bar"
    /\ call.fn = "create_choropleth_map" =>
          IF YearRows(call.year) = {}
          THEN IsPlaceholder(call.result)
          ELSE call.result.kind = "choropleth"

(* The map builder called with the year before the dataset's first. *)
C4_Witness ==
    /\ call.fn = "create_choropleth_map"
    /\ call.year = FirstYear - 1
    /\ IsPlaceholder(call.result)

ThemeTemplate(theme) == IF theme = "dark" THEN "plotly_dark" ELSE "plotly_white"

(* C5 as stated: every figure of a ranked-bar builder carries the template *)
(* of the theme of the call, the placeholder included.                     *)
C5_AlwaysThemed ==
    IsBarCall => call.result.template = ThemeTemplate(call.theme)

(* C5 as amended: a bar figure carries the template of the theme of the    *)
(* call; the placeholder carries plotly_white whatever the theme.          *)
C5_ThemedUnlessEmpty ==
    IsBarCall =>
        IF MatchingRows(call.continent, call.year) = {}
        THEN call.result.template = "plotly_white"
        ELSE call.result.template = ThemeTemplate(call.theme)

(* The dark theme with a filter that matches no row. *)
C5_Witness ==
    /\ IsBarCall
    /\ call.theme = "dark"
    /\ MatchingRows(call.continent, call.year) = {}
    /\ call.result.template = "plotly_white"

(* C8: theme_settings returns the dark bundle for "dark" and the light     *)
(* bundle for every other selector, a missing one included.                *)
C8_ThemeTotal ==
    call.fn = "theme_settings" =>
        call.result =
            IF call.theme = "dark"
            THEN [template |-> "plotly_dark", page_bg |-> "#111827",
                  card_bg |-> "#1f2937", text |-> "#e5e7eb"]
            ELSE [template |-> "plotly_white", page_bg |-> "#e5ecf6",
                  card_bg |-> "#ffffff", text |-> "#111827"]

(* A selector that is neither "light" nor "dark". *)
C8_Witness ==
    /\ call.fn = "theme_settings"
    /\ call.theme \notin {"light", "dark"}
    /\ call.result.template = "plotly_white"

MapColumn(variable) ==
    CASE variable = "Population"     -> "pop"
      [] variable = "GDP per Capita" -> "gdpPercap"
      [] OTHER                       -> "lifeExp"

(* C9: for a year of the dataset the map has one region per row of that    *)
(* year, keyed by the row's ISO code and coloured by the row's value in    *)
(* the column of the variable label; an unknown label colours by lifeExp.  *)
C9_MapRegions ==
    (call.fn = "create_choropleth_map" /\ call.year \in years)
    => /\ call.result.kind = "choropleth"
       /\ call.result.color_col = MapColumn(call.variable)
       /\ Len(call.result.locations) = Cardinality(YearRows(call.year))
       /\ Len(call.result.color) = Len(call.result.locations)
       /\ \A r \in YearRows(call.year) :
             \E i \in 1..Len(call.result.locations) :
                 /\ call.result.locations[i] = df[r].iso_alpha
                 /\ call.result.color[i] = df[r][MapColumn(call.variable)]
                 /\ call.result.hover_name[i] = df[r].country

(* A label outside VAR_MAP, for a year of the dataset. *)
C9_Witness ==
    /\ call.fn = "create_choropleth_map"
    /\ call.variable \notin DOMAIN VAR_MAP
    /\ call.year \in years
    /\ call.result.kind = "choropleth"
    /\ call.result.color_col = "lifeExp"

----------------------------------------------------------------------------
(* Properties of the page, checked under Spec. *)

BarIds == <<"population", "gdp", "life_expectancy">>

BarColumns == <<"pop", "gdpPercap", "lifeExp">>

(* C6: the three bar figures on display come from one call of update_bars: *)
(* they name the same continent and year, carry the same template and      *)
(* orientation, and show the same number of bars, the number one slider    *)
(* value of top N leaves of the rows of that continent and year; each      *)
(* shows its own metric of those rows.                                     *)
C6_BarsOneSnapshot ==
    \/ \A k \in 1..Len(BarIds) : figure[BarIds[k]] = None
    \/ LET p == figure["population"]
           continent == p.title[2]
           year == p.title[4]
           matching == MatchingRows(continent, year)
       IN  \E n \in TopNValues :
           \A k \in 1..Len(BarIds) :
               LET f == figure[BarIds[k]]
               IN  /\ f.kind = "bar"
                   /\ f.title[2] = continent
                   /\ f.title[4] = year
                   /\ f.template = p.template
                   /\ f.orientation = p.orientation
                   /\ Len(Categories(f)) =
                          IF n < Cardinality(matching) THEN n ELSE Cardinality(matching)
                   /\ \A i \in 1..Len(Categories(f)) :
                         \E r \in matching :
                             /\ df[r].country = Categories(f)[i]
                             /\ df[r][BarColumns[k]] = Values(f)[i]

(* The bars redrawn, by changes of several controls, for the second        *)
(* continent, a later year and the horizontal orientation.                 *)
C6_Witness ==
    /\ Idle
    /\ figure["gdp"] # None
    /\ figure["gdp"].title[2] # "Asia"
    /\ figure["gdp"].title[4] # FirstYear
    /\ figure["life_expectancy"].orientation = "h"
    /\ figure["population"].template = "plotly_dark"

(* C7: while the callbacks of a theme change run, each figure they replace *)
(* differs from the one it replaces in its template alone: rows, order,    *)
(* values and title are those of the render before the change.             *)
C7_ThemeKeepsData ==
    [][changed' = "theme-toggle" =>
          \A id \in GraphIds :
              figure[id] # None =>
                  [figure'[id] EXCEPT !.template = figure[id].template] = figure[id]]_vars

(* A switch from dark back to light, every callback run, the other         *)
(* controls off their initial values: all five figures are light again.    *)
C7_Witness ==
    /\ Idle
    /\ changed = "theme-toggle"
    /\ theme_toggle = "light"
    /\ \A id \in GraphIds : figure[id] # None /\ figure[id].template = "plotly_white"
    /\ cont_all # "Asia"
    /\ var_map = "Population"

(* What a callback's Outputs hold when it has run on the current values. *)
Rendered(cb) ==
    CASE cb = "paint_theme" ->
            \A i \in 1..Len(StyledIds) : style[StyledIds[i]] = paint_theme(theme_toggle)[i]
      [] cb = "update_table" ->
            figure["dataset"] = update_table(theme_toggle)
      [] cb = "update_bars" ->
            <<figure["population"], figure["gdp"], figure["life_expectancy"]>>
                = update_bars(cont_all, year_all, theme_toggle, topn, bar_orient)
      [] cb = "update_map" ->
            figure["choropleth_map"] = update_map(var_map, year_map, theme_toggle)

UpToDate == \A cb \in Callbacks \ pending : Rendered(cb)

(* C10: every output whose callback is not queued is what that callback    *)
(* returns for the current control values, whatever the order in which the *)
(* queued callbacks ran; a change of the bar charts' year leaves the map   *)
(* figure as it was, and a change of the map's year the bar figures.       *)
C10_OutputsFollowControls ==
    /\ []UpToDate
    /\ [][changed' = "year_all" =>
             figure'["choropleth_map"] = figure["choropleth_map"]]_vars
    /\ [][changed' = "year_map" =>
             \A k \in 1..Len(BarIds) : figure'[BarIds[k]] = figure[BarIds[k]]]_vars

(* The bar charts' year changed and served, the map still on its own year. *)
C10_Witness ==
    /\ Idle
    /\ changed = "year_all"
    /\ year_all # year_map
    /\ figure["population"].title[4] = year_all
    /\ figure["choropleth_map"].title[3] = year_map

====
